---- MODULE Spec2Model ----
(***************************************************************************)
(* Model of hhgrdiff (Hardhat Gas Report Diff), src/hhgrdiff/__main__.py.  *)
(*                                                                         *)
(* A Python str is modelled as a sequence of characters; a character is a  *)
(* one-character TLA+ string, except the two non-ASCII characters of the   *)
(* report format, which are written by their code points: "U+00B7" is the  *)
(* middle dot and "U+2502" is the box-drawing vertical bar; the backquote  *)
(* of the Markdown output is written "U+0060".                             *)
(*                                                                         *)
(* Three specifications share the variables:                               *)
(*   SpecFlatten  flatten_line applied to one line                         *)
(*   Spec         new_report_dict_from_file reading a file line by line    *)
(*   SpecFormat   format_markdown run on two parsed reports                *)
(***************************************************************************)
EXTENDS Integers, Sequences, FiniteSets, TLC

VARIABLES
    line, cols, fpc,                                  \* flatten_line
    state, next_state, methods, deployments, fp, ppc, \* new_report_dict_from_file
    before, after, args, stdout, datakey, all_keys, mpc \* format_markdown

vars == <<line, cols, fpc, state, next_state, methods, deployments, fp, ppc,
          before, after, args, stdout, datakey, all_keys, mpc>>

flattenVars == <<line, cols, fpc>>
parserVars == <<state, next_state, methods, deployments, fp, ppc>>
formatVars == <<before, after, args, stdout, datakey, all_keys, mpc>>

---------------------------------------------------------------------------
(* Characters and strings *)

MIDDOT == "U+00B7"
BOXBAR == "U+2502"
BACKQUOTE == "U+0060"

\* The characters of str.strip('│| \n') in flatten_line.
StripChars == {BOXBAR, "|", " ", "\n"}

Range(s) == {s[i] : i \in 1..Len(s)}

Min(a, b) == IF a < b THEN a ELSE b

\* needle in hay (Python's substring test on str)
Contains(hay, needle) ==
    \E i \in 0..(Len(hay) - Len(needle)) :
        SubSeq(hay, i + 1, i + Len(needle)) = needle

\* str.lstrip(chars)
RECURSIVE LStrip(_, _)
LStrip(s, chars) ==
    IF s # <<>> /\ Head(s) \in chars THEN LStrip(Tail(s), chars) ELSE s

\* str.rstrip(chars)
RECURSIVE RStrip(_, _)
RStrip(s, chars) ==
    IF s # <<>> /\ s[Len(s)] \in chars
    THEN RStrip(SubSeq(s, 1, Len(s) - 1), chars)
    ELSE s

\* str.strip(chars)
Strip(s, chars) == RStrip(LStrip(s, chars), chars)

\* str.split(sep) for a one-character sep: always at least one segment.
RECURSIVE SplitFrom(_, _, _)
SplitFrom(s, sep, cur) ==
    IF s = <<>> THEN <<cur>>
    ELSE IF Head(s) = sep THEN <<cur>> \o SplitFrom(Tail(s), sep, <<>>)
    ELSE SplitFrom(Tail(s), sep, Append(cur, Head(s)))

Split(s, sep) == SplitFrom(s, sep, <<>>)

---------------------------------------------------------------------------
(* flatten_line *)

\* [col for column in segs if (col := column.strip('│| \n'))]
RECURSIVE StripAndKeep(_)
StripAndKeep(segs) ==
    IF segs = <<>> THEN <<>>
    ELSE LET col == Strip(Head(segs), StripChars)
         IN  (IF col # <<>> THEN <<col>> ELSE <<>>) \o StripAndKeep(Tail(segs))

\* Mutant: strips the left end only.
RECURSIVE StripLeftAndKeep(_)
StripLeftAndKeep(segs) ==
    IF segs = <<>> THEN <<>>
    ELSE LET col == LStrip(Head(segs), StripChars)
         IN  (IF col # <<>> THEN <<col>> ELSE <<>>) \o StripLeftAndKeep(Tail(segs))

flatten_line_lstrip(l) == StripLeftAndKeep(Split(l, MIDDOT))

flatten_line(l) == StripAndKeep(Split(l, MIDDOT))

---------------------------------------------------------------------------
(* Dictionaries: a dict is a function whose domain is its key set. *)

EmptyDict == [k \in {} |-> k]

\* Mutant: d.setdefault(key, value), an existing entry is kept.
DictSetDefault(d, key, value) ==
    [k \in (DOMAIN d) \cup {key} |-> IF k \in DOMAIN d THEN d[k] ELSE value]

\* d[key] = value
DictSet(d, key, value) ==
    [k \in (DOMAIN d) \cup {key} |-> IF k = key THEN value ELSE d[k]]

\* dict(zip(names, data)): pairs up to the shorter length, later pairs win.
DictZip(names, data) ==
    LET n == Min(Len(names), Len(data))
    IN  [c \in {names[i] : i \in 1..n} |->
            data[CHOOSE i \in 1..n :
                    names[i] = c /\ \A j \in (i + 1)..n : names[j] # c]]

---------------------------------------------------------------------------
(* new_report_dict_from_file *)

METHOD_COLUMNS ==
    <<"contract", "method", "min", "max", "avg", "calls", "avgeur">>

DEPLOYMENT_COLUMNS ==
    <<"contract", "min", "max", "avg", "pctg", "avgeur">>

\* class State(Enum)
States == {"HEADER", "METHODS", "DEPLOYMENTS"}

S_Contract == <<"C", "o", "n", "t", "r", "a", "c", "t">>
S_Deployments == <<"D", "e", "p", "l", "o", "y", "m", "e", "n", "t", "s">>

\* Mutant: the key is built without the '.' between the two names.
MethodKeyNoDot(labeled_data) ==
    labeled_data["contract"] \o labeled_data["method"]

\* key = labeled_data['contract'] + '.' + labeled_data['method']
MethodKey(labeled_data) ==
    labeled_data["contract"] \o <<".">> \o labeled_data["method"]

\* key = labeled_data['contract']
DeploymentKey(labeled_data) == labeled_data["contract"]

\* Mutant: the column-count guard of the METHODS branch accepts longer rows
\* (zip then drops the surplus values).
MethodsAfterLineLoose(m, l) ==
    LET data == flatten_line(l)
    IN  IF Len(data) >= Len(METHOD_COLUMNS)
        THEN LET labeled_data == DictZip(METHOD_COLUMNS, data)
             IN  DictSet(m, MethodKey(labeled_data), labeled_data)
        ELSE m

\* Lines 92-98: the data branch of the METHODS state.
MethodsAfterLine(m, l) ==
    LET data == flatten_line(l)
    IN  IF Len(data) = Len(METHOD_COLUMNS)
        THEN LET labeled_data == DictZip(METHOD_COLUMNS, data)
             IN  DictSet(m, MethodKey(labeled_data), labeled_data)
        ELSE m

\* Mutant: the column-count guard of the DEPLOYMENTS branch accepts longer
\* rows (zip then drops the surplus values).
DeploymentsAfterLineLoose(d, l) ==
    LET data == flatten_line(l)
    IN  IF Len(data) >= Len(DEPLOYMENT_COLUMNS)
        THEN LET labeled_data == DictZip(DEPLOYMENT_COLUMNS, data)
             IN  DictSet(d, DeploymentKey(labeled_data), labeled_data)
        ELSE d

\* Lines 100-104: the DEPLOYMENTS state.
DeploymentsAfterLine(d, l) ==
    LET data == flatten_line(l)
    IN  IF Len(data) = Len(DEPLOYMENT_COLUMNS)
        THEN LET labeled_data == DictZip(DEPLOYMENT_COLUMNS, data)
             IN  DictSet(d, DeploymentKey(labeled_data), labeled_data)
        ELSE d

\* Mutant: the "Deployments" test of the METHODS state does not exclude the
\* data branch (if ... : next_state = ...; then parse the line anyway).
MethodsStepFallThrough(m, l) == MethodsAfterLine(m, l)

\* Lines 88-98: the methods mapping after a line read in the METHODS state.
MethodsStep(m, l) ==
    IF Contains(l, S_Deployments) THEN m ELSE MethodsAfterLine(m, l)

\* Mutant: the METHODS branch assigns a value that is none of the three
\* states.
NextStateAfterLineStray(st, nst, l) ==
    IF st = "HEADER" /\ Contains(l, S_Contract) THEN "METHODS"
    ELSE IF st = "METHODS" /\ Contains(l, S_Deployments) THEN "FOOTER"
    ELSE nst

\* Mutant: the HEADER branch assigns a value that is none of the three
\* states.
NextStateAfterLineUnset(st, nst, l) ==
    IF st = "HEADER" /\ Contains(l, S_Contract) THEN "NONE"
    ELSE IF st = "METHODS" /\ Contains(l, S_Deployments) THEN "DEPLOYMENTS"
    ELSE nst

\* Mutant: the "Contract" test is made in every state, so a contract named
\* Contract sends the parser back from DEPLOYMENTS to METHODS.
NextStateAfterLineBackward(st, nst, l) ==
    IF Contains(l, S_Contract) /\ st # "METHODS" THEN "METHODS"
    ELSE IF st = "METHODS" /\ Contains(l, S_Deployments) THEN "DEPLOYMENTS"
    ELSE nst

\* Mutant: the "Deployments" test follows the "Contract" test on the same
\* line (if, not elif, on the state just assigned).
NextStateAfterLineEager(st, nst, l) ==
    LET st1 == IF st = "HEADER" /\ Contains(l, S_Contract) THEN "METHODS" ELSE st
    IN  IF st1 = "METHODS" /\ Contains(l, S_Deployments) THEN "DEPLOYMENTS"
        ELSE IF st1 # st THEN st1
        ELSE nst

\* Lines 85-90: next_state after a line read in state st.
NextStateAfterLine(st, nst, l) ==
    IF st = "HEADER" /\ Contains(l, S_Contract) THEN "METHODS"
    ELSE IF st = "METHODS" /\ Contains(l, S_Deployments) THEN "DEPLOYMENTS"
    ELSE nst

---------------------------------------------------------------------------
(* The report lines the model reads. *)

\* Longest file read, in lines.
MaxLines == 4

RECURSIVE Join(_, _)
Join(strs, sep) ==
    IF strs = <<>> THEN <<>>
    ELSE IF Len(strs) = 1 THEN Head(strs)
    ELSE Head(strs) \o sep \o Join(Tail(strs), sep)

\* A table row as the reporter prints it: '| c1 · c2 · ... │\n'
Row(cs) ==
    <<"|", " ">> \o Join(cs, <<" ", MIDDOT, " ">>) \o <<" ", BOXBAR, "\n">>

\* 7-column rows that carry neither marker word: two for the same key with
\* different avg, one for another key
MethodRows ==
    { Row(<<<<"A">>, nm[1], <<"-">>, <<"-">>, nm[2], <<"3">>, <<"-">>>>) :
        nm \in { << <<"f">>, <<"1">> >>, << <<"f">>, <<"2">> >>,
                 << <<"g">>, <<"1">> >> } }

\* 6-column rows that carry neither marker word: two for the same contract
\* with different avg
DeploymentRows ==
    { Row(<<<<"A">>, <<"-">>, <<"-">>, a, <<"5", " ", "%">>, <<"-">>>>) :
        a \in { <<"1">>, <<"2">> } }

\* the column title row of the methods table: contains "Contract", 7 columns
TitleRow ==
    Row(<<S_Contract, <<"M">>, <<"m">>, <<"M">>, <<"a">>, <<"#">>, <<"e">>>>)

\* the row that opens the deployments table: contains "Deployments", 2 columns
DeploymentsRow == Row(<<S_Deployments, <<>>, <<"%">>>>)

\* a 7-column row of a contract whose name contains "Deployments"
DeploymentsNamedMethodRow ==
    Row(<<S_Deployments \o <<"X">>, <<"f">>, <<"-">>, <<"-">>, <<"1">>,
          <<"3">>, <<"-">>>>)

\* a 6-column row of a contract named "Contract"
ContractNamedDeploymentRow ==
    Row(<<S_Contract, <<"-">>, <<"-">>, <<"1">>, <<"5">>, <<"-">>>>)

\* a 7-column row that contains both marker words
BothMarkersRow ==
    Row(<<S_Contract, S_Deployments, <<"-">>, <<"-">>, <<"1">>, <<"3">>,
          <<"-">>>>)

\* a row with one column too many for the methods table (8 columns); the
\* separator row below has too few for either table
WrongWidthRows ==
    { Row(<<<<"A">>, <<"f">>, <<"-">>, <<"-">>, <<"1">>, <<"3">>, <<"-">>,
            <<"x">>>>) }

\* a separator row
NoiseRows == { <<MIDDOT, "-", "|", "-", MIDDOT, "\n">> }

ReportLines ==
    MethodRows \cup DeploymentRows \cup WrongWidthRows \cup NoiseRows \cup
    { TitleRow, DeploymentsRow, DeploymentsNamedMethodRow,
      ContractNamedDeploymentRow, BothMarkersRow }

---------------------------------------------------------------------------
(* Values of the variables a specification does not use *)

FlattenIdle == line = <<>> /\ cols = <<>> /\ fpc = "idle"

ParserIdle ==
    /\ state = "HEADER" /\ next_state = "HEADER"
    /\ methods = EmptyDict /\ deployments = EmptyDict
    /\ fp = <<>> /\ ppc = "idle"

FormatIdle ==
    /\ before = EmptyDict /\ after = EmptyDict /\ args = EmptyDict
    /\ stdout = <<>> /\ datakey = "" /\ all_keys = <<>> /\ mpc = "idle"

---------------------------------------------------------------------------
(* Specification of new_report_dict_from_file *)

\* Lines 78-81; fp is the sequence of lines read from the file so far.
Init ==
    /\ state = "HEADER"
    /\ next_state = "HEADER"
    /\ methods = EmptyDict
    /\ deployments = EmptyDict
    /\ fp = <<>>
    /\ ppc = "loop"
    /\ FlattenIdle
    /\ FormatIdle

\* Mutant: the data branch of METHODS is not an elif of the state test, so
\* a line read in DEPLOYMENTS is offered to the methods mapping as well.
ProcessLineNoElif(l) ==
    /\ ppc = "loop"
    /\ Len(fp) < MaxLines
    /\ fp' = Append(fp, l)
    /\ IF state = "HEADER"
       THEN /\ next_state' = NextStateAfterLine(state, next_state, l)
            /\ state' = next_state'
            /\ UNCHANGED <<methods, deployments, ppc>>
       ELSE IF state = "METHODS"
       THEN /\ next_state' = NextStateAfterLine(state, next_state, l)
            /\ methods' = MethodsStep(methods, l)
            /\ state' = next_state'
            /\ UNCHANGED <<deployments, ppc>>
       ELSE IF state = "DEPLOYMENTS"
       THEN /\ deployments' = DeploymentsAfterLine(deployments, l)
            /\ methods' = MethodsStep(methods, l)
            /\ next_state' = NextStateAfterLine(state, next_state, l)
            /\ state' = next_state'
            /\ UNCHANGED ppc
       ELSE /\ ppc' = "fault"
            /\ UNCHANGED <<state, next_state, methods, deployments>>
    /\ UNCHANGED flattenVars
    /\ UNCHANGED formatVars

\* Lines 84-107: one iteration of the loop over the lines of fp.
ProcessLine(l) ==
    /\ ppc = "loop"
    /\ Len(fp) < MaxLines
    /\ fp' = Append(fp, l)
    /\ IF state = "HEADER"
       THEN /\ next_state' = NextStateAfterLine(state, next_state, l)
            /\ state' = next_state'
            /\ UNCHANGED <<methods, deployments, ppc>>
       ELSE IF state = "METHODS"
       THEN /\ next_state' = NextStateAfterLine(state, next_state, l)
            /\ methods' = MethodsStep(methods, l)
            /\ state' = next_state'
            /\ UNCHANGED <<deployments, ppc>>
       ELSE IF state = "DEPLOYMENTS"
       THEN /\ deployments' = DeploymentsAfterLine(deployments, l)
            /\ next_state' = NextStateAfterLine(state, next_state, l)
            /\ state' = next_state'
            /\ UNCHANGED <<methods, ppc>>
       ELSE /\ ppc' = "fault"     \* raise RuntimeError('Unkown state ...')
            /\ UNCHANGED <<state, next_state, methods, deployments>>
    /\ UNCHANGED flattenVars
    /\ UNCHANGED formatVars

\* Line 109: end of file, return dict(methods=methods, deployments=deployments)
Return ==
    /\ ppc = "loop"
    /\ ppc' = "returned"
    /\ UNCHANGED <<state, next_state, methods, deployments, fp>>
    /\ UNCHANGED flattenVars
    /\ UNCHANGED formatVars

Next == (\E l \in ReportLines : ProcessLine(l)) \/ Return

Spec == Init /\ [][Next]_vars

\* The loop of lines 84-107 is the only thread of control: while a step is
\* possible (another line, or the end of the file) one is taken.
SpecFair == Spec /\ WF_vars(Next)

---------------------------------------------------------------------------
(* Properties of new_report_dict_from_file *)

Last(s) == s[Len(s)]

\* The step reads a line (one loop iteration).
ReadsLine == Len(fp') = Len(fp) + 1

\* The line l, read in state st, makes the parser change state.
TriggersTransition(st, l) ==
    \/ st = "HEADER" /\ Contains(l, S_Contract)
    \/ st = "METHODS" /\ Contains(l, S_Deployments)

\* C1: a line that triggers a state transition ("Contract" read in HEADER,
\* "Deployments" read in METHODS) never adds or overwrites an entry of the
\* methods or the deployments mapping, whatever its column count.
C1_TransitionLineAddsNoRecord ==
    [][ (ReadsLine /\ TriggersTransition(state, Last(fp')))
          => (methods' = methods /\ deployments' = deployments) ]_vars

\* C1 witness: a 7-column line containing "Deployments" was read in METHODS
\* (right after a 7-column "Contract" line read in HEADER); no record exists.
C1_Witness ==
    /\ Len(fp) = 2
    /\ Contains(fp[1], S_Contract) /\ Len(flatten_line(fp[1])) = 7
    /\ Contains(fp[2], S_Deployments) /\ Len(flatten_line(fp[2])) = 7
    /\ state = "DEPLOYMENTS"
    /\ methods = EmptyDict /\ deployments = EmptyDict

\* The methods mapping m holds, under the key contract.method, the record
\* whose seven fields are the values of data in order.
HoldsMethodRecord(m, data) ==
    LET key == data[1] \o <<".">> \o data[2]
    IN  /\ key \in DOMAIN m
        /\ DOMAIN m[key] = Range(METHOD_COLUMNS)
        /\ \A i \in 1..7 : m[key][METHOD_COLUMNS[i]] = data[i]

\* C2 as stated: every line read in METHODS that flattens to exactly 7
\* columns is stored as a method record under contract.method, and a line
\* of any other column count leaves the methods mapping unchanged.
C2_Original ==
    [][ (ReadsLine /\ state = "METHODS")
          => LET data == flatten_line(Last(fp'))
             IN  IF Len(data) = 7
                 THEN HoldsMethodRecord(methods', data)
                 ELSE methods' = methods ]_vars

\* C2 amended: every line read in METHODS that does not contain
\* "Deployments" and flattens to exactly 7 columns is stored as a method
\* record under contract.method with its seven fields in order; a line read
\* in METHODS of any other column count leaves the methods mapping unchanged.
C2_MethodRowStored ==
    [][ (ReadsLine /\ state = "METHODS")
          => LET l == Last(fp')
                 data == flatten_line(l)
             IN  /\ (Len(data) = 7 /\ ~Contains(l, S_Deployments))
                       => HoldsMethodRecord(methods', data)
                 /\ Len(data) # 7 => methods' = methods ]_vars

\* C2 witness: a 7-column row was read in METHODS and is stored, and an
\* 8-column row read in METHODS after it left the mapping alone.
C2_Witness ==
    /\ Len(fp) = 3
    /\ Contains(fp[1], S_Contract)
    /\ Len(flatten_line(fp[2])) = 7 /\ ~Contains(fp[2], S_Deployments)
    /\ Len(flatten_line(fp[3])) = 8 /\ ~Contains(fp[3], S_Deployments)
    /\ HoldsMethodRecord(methods, flatten_line(fp[2]))
    /\ Cardinality(DOMAIN methods) = 1

---------------------------------------------------------------------------
(* Specification of flatten_line: one call on an arbitrary short line *)

\* Longest line given to flatten_line on its own, in characters.
MaxLineLen == 5

\* The format's separator and boundary characters and one ordinary character.
LineChars == {MIDDOT, BOXBAR, "|", " ", "\n", "a"}

SeqsUpTo(S, n) == UNION {[1..k -> S] : k \in 0..n}

InitFlatten ==
    /\ line \in SeqsUpTo(LineChars, MaxLineLen)
    /\ cols = <<>>
    /\ fpc = "call"
    /\ ParserIdle
    /\ FormatIdle

\* Lines 58-59
FlattenLine ==
    /\ fpc = "call"
    /\ cols' = flatten_line(line)
    /\ fpc' = "done"
    /\ UNCHANGED line
    /\ UNCHANGED parserVars
    /\ UNCHANGED formatVars

NextFlatten == FlattenLine

SpecFlatten == InitFlatten /\ [][NextFlatten]_vars

(* Properties of flatten_line *)

\* The positions just before each middle-dot-separated segment of l:
\* 0 and the positions of the middle dots.
SegmentStarts(l) == {0} \cup {i \in 1..Len(l) : l[i] = MIDDOT}

\* The segment of l that starts after position p: up to the next middle dot
\* or the end of the line.
SegmentAt(l, p) ==
    LET ends == {i \in (p + 1)..(Len(l) + 1) : i = Len(l) + 1 \/ l[i] = MIDDOT}
        q == CHOOSE i \in ends : \A j \in ends : i <= j
    IN  SubSeq(l, p + 1, q - 1)

\* s without its leading and trailing boundary characters: what lies between
\* the first and the last character of s that is not a boundary character.
Trimmed(s) ==
    LET keep == {i \in 1..Len(s) : s[i] \notin {BOXBAR, "|", " ", "\n"}}
    IN  IF keep = {} THEN <<>>
        ELSE SubSeq(s, CHOOSE i \in keep : \A j \in keep : i <= j,
                       CHOOSE i \in keep : \A j \in keep : j <= i)

\* The segments of l that are not empty once trimmed, trimmed, in order.
NonEmptyTrimmedSegments(l) ==
    LET P == {p \in SegmentStarts(l) : Trimmed(SegmentAt(l, p)) # <<>>}
    IN  [k \in 1..Cardinality(P) |->
            Trimmed(SegmentAt(l,
                CHOOSE p \in P : Cardinality({q \in P : q < p}) = k - 1))]

\* C10: flatten_line returns exactly the ordered subsequence of the line's
\* middle-dot-separated segments that are non-empty after stripping the
\* boundary characters from both ends, each in stripped form; a line without
\* a middle dot yields at most one value, and a line made only of separator
\* and boundary characters yields the empty sequence.
C10_FlattenLine ==
    fpc = "done" =>
        /\ cols = NonEmptyTrimmedSegments(line)
        /\ MIDDOT \notin Range(line) => Len(cols) <= 1
        /\ Range(line) \subseteq {MIDDOT, BOXBAR, "|", " ", "\n"} => cols = <<>>

\* C10 witness: a bordered line of two columns separated by a middle dot,
\* with boundary characters stripped from both ends, has been flattened.
C10_Witness ==
    /\ fpc = "done"
    /\ Len(line) = 5
    /\ line[1] = "|" /\ line[5] = BOXBAR /\ line[3] = MIDDOT
    /\ cols = << <<"a">>, <<"a">> >>

---------------------------------------------------------------------------
(* int(str), "{:+d}".format and "{:+.2f}%".format *)

Digits == <<"0", "1", "2", "3", "4", "5", "6", "7", "8", "9">>

DigitValue(c) == (CHOOSE i \in 1..10 : Digits[i] = c) - 1

\* Characters int() strips from both ends of its argument.
Whitespace == {" ", "\n", "\t"}

\* The digit part of an int() literal: digits, single underscores allowed
\* between two digits only.
IsDigitPart(s) ==
    /\ s # <<>>
    /\ \A i \in 1..Len(s) :
          \/ s[i] \in Range(Digits)
          \/ /\ s[i] = "_"
             /\ 1 < i /\ i < Len(s)
             /\ s[i - 1] \in Range(Digits) /\ s[i + 1] \in Range(Digits)

\* s without its optional sign, after stripping whitespace
Unsigned(s) ==
    LET t == Strip(s, Whitespace)
    IN  IF t # <<>> /\ Head(t) \in {"+", "-"} THEN Tail(t) ELSE t

\* int(s) returns (does not raise ValueError)
IsIntLiteral(s) == IsDigitPart(Unsigned(s))

RECURSIVE DigitsValue(_, _)
DigitsValue(s, acc) ==
    IF s = <<>> THEN acc
    ELSE IF Head(s) = "_" THEN DigitsValue(Tail(s), acc)
    ELSE DigitsValue(Tail(s), 10 * acc + DigitValue(Head(s)))

\* int(s), for s with IsIntLiteral(s)
IntOf(s) ==
    LET t == Strip(s, Whitespace)
        v == DigitsValue(Unsigned(s), 0)
    IN  IF Head(t) = "-" THEN 0 - v ELSE v

\* "{:d}".format(n) for n >= 0
RECURSIVE NatToStr(_)
NatToStr(n) ==
    IF n < 10 THEN <<Digits[n + 1]>>
    ELSE Append(NatToStr(n \div 10), Digits[(n % 10) + 1])

Abs(n) == IF n < 0 THEN 0 - n ELSE n

\* "{:+d}".format(n)
FormatSigned(n) == (IF n < 0 THEN <<"-">> ELSE <<"+">>) \o NatToStr(Abs(n))

\* num / den rounded to the nearest integer, ties to even (num >= 0, den > 0)
RoundHalfEven(num, den) ==
    LET q == num \div den
        r == num % den
    IN  IF 2 * r > den \/ (2 * r = den /\ q % 2 = 1) THEN q + 1 ELSE q

\* Mutant: the fraction is formatted without the factor 100.
FormatPercentNoScale(diff, before_int) ==
    LET h == RoundHalfEven(100 * Abs(diff), Abs(before_int))
        negative == (diff < 0 /\ before_int > 0) \/ (diff >= 0 /\ before_int < 0)
    IN  (IF negative THEN <<"-">> ELSE <<"+">>)
        \o NatToStr(h \div 100)
        \o <<".", Digits[((h % 100) \div 10) + 1], Digits[(h % 10) + 1], "%">>

\* "{:+.2f}%".format(100 * (diff / before_int)) for before_int # 0.
\* The float quotient is negative, or the negative zero, exactly when the
\* operands' signs say so: 0 / -5 is -0.0 and prints as "-0.00".  The value
\* is printed to two decimals, rounded to nearest with ties to even; for the
\* avg values of this model the double-precision result is that of the exact
\* quotient.
FormatPercent(diff, before_int) ==
    LET h == RoundHalfEven(10000 * Abs(diff), Abs(before_int))
        negative == (diff < 0 /\ before_int > 0) \/ (diff >= 0 /\ before_int < 0)
    IN  (IF negative THEN <<"-">> ELSE <<"+">>)
        \o NatToStr(h \div 100)
        \o <<".", Digits[((h % 100) \div 10) + 1], Digits[(h % 10) + 1], "%">>

---------------------------------------------------------------------------
(* The Markdown table *)

MARKDOWN_TABLE_COLUMNS ==
    << <<"M", "e", "t", "h", "o", "d", " ", "c", "a", "l", "l", " ", "o",
          "r", " ", "C", "o", "n", "t", "r", "a", "c", "t", " ", "d",
          "e", "p", "l", "o", "y", "m", "e", "n", "t">>,
       <<"B", "e", "f", "o", "r", "e">>,
       <<"A", "f", "t", "e", "r">>,
       <<"A", "f", "t", "e", "r", " ", "-", " ", "B", "e", "f", "o", "r", "e">>,
       <<"(", "A", "f", "t", "e", "r", " ", "-", " ", "B", "e", "f", "o",
          "r", "e", ")", " ", "/", " ", "B", "e", "f", "o", "r", "e">> >>

MARKDOWN_TABLE_ALIGNMENTS ==
    << <<":", "-">>, <<":", "-", ":">>, <<":", "-", ":">>, <<":", "-", ":">>,
       <<":", "-", ":">> >>

\* Mutant: the cells are joined but the line is not wrapped in "| " and " |".
print_list_in_markdown_table_bare(lst) == Join(lst, <<" ", "|", " ">>)

\* '| {} |'.format(' | '.join(lst)): the line print() writes, without its
\* newline
print_list_in_markdown_table(lst) ==
    <<"|", " ">> \o Join(lst, <<" ", "|", " ">>) \o <<" ", "|">>

\* Code points of the characters that occur in keys.
CodePoint(c) ==
    CASE c = "." -> 46
      [] c = "A" -> 65
      [] c = "B" -> 66
      [] c = "a" -> 97
      [] c = "f" -> 102

\* s < t for Python str: by code point at the first difference, a proper
\* prefix first.
StrLess(s, t) ==
    \E i \in 1..(Len(t)) :
        /\ i <= Len(s) + 1
        /\ SubSeq(s, 1, i - 1) = SubSeq(t, 1, i - 1)
        /\ (i = Len(s) + 1 \/ CodePoint(s[i]) < CodePoint(t[i]))

\* sorted(S)
RECURSIVE Sorted(_)
Sorted(S) ==
    IF S = {} THEN <<>>
    ELSE LET m == CHOOSE x \in S : \A y \in S \ {x} : StrLess(x, y)
         IN  <<m>> \o Sorted(S \ {m})

\* Mutant: the keys of d1 in order, then the keys only d2 has.
dicts_union_concat(d1, d2) ==
    Sorted(DOMAIN d1) \o Sorted((DOMAIN d2) \ (DOMAIN d1))

\* Mutant: sorted(list(d1) + list(d2)), a key of both mappings comes twice.
RECURSIVE Doubled(_, _)
Doubled(ks, both) ==
    IF ks = <<>> THEN <<>>
    ELSE (IF Head(ks) \in both THEN <<Head(ks), Head(ks)>> ELSE <<Head(ks)>>)
         \o Doubled(Tail(ks), both)

dicts_union_list(d1, d2) ==
    Doubled(Sorted((DOMAIN d1) \cup (DOMAIN d2)), (DOMAIN d1) \cap (DOMAIN d2))

\* sorted(set(d1) | set(d2))
dicts_union(d1, d2) == Sorted((DOMAIN d1) \cup (DOMAIN d2))

\* Mutant: a zero "before" is special-cased instead of dividing by it.
calculate_line_zero_guarded(before_avg, after_avg) ==
    IF ~IsIntLiteral(before_avg) THEN [raised |-> "ValueError", cells |-> <<>>]
    ELSE IF ~IsIntLiteral(after_avg) THEN [raised |-> "ValueError", cells |-> <<>>]
    ELSE LET before_int == IntOf(before_avg)
             diff == IntOf(after_avg) - before_int
         IN  [raised |-> "",
              cells |-> <<before_avg, after_avg, FormatSigned(diff),
                          IF before_int = 0 THEN <<"-">>
                          ELSE FormatPercent(diff, before_int)>>]

\* Lines 137-142.  calculate_line(before, after): the four cells, or the
\* exception raised: int(before), then int(after), then the division.
calculate_line(before_avg, after_avg) ==
    IF ~IsIntLiteral(before_avg) THEN [raised |-> "ValueError", cells |-> <<>>]
    ELSE IF ~IsIntLiteral(after_avg) THEN [raised |-> "ValueError", cells |-> <<>>]
    ELSE LET before_int == IntOf(before_avg)
             diff == IntOf(after_avg) - before_int
         IN  IF before_int = 0
             THEN [raised |-> "ZeroDivisionError", cells |-> <<>>]
             ELSE [raised |-> "",
                   cells |-> <<before_avg, after_avg, FormatSigned(diff),
                               FormatPercent(diff, before_int)>>]

\* Line 146: the key between two backquotes
CodeSpan(key) == <<BACKQUOTE>> \o key \o <<BACKQUOTE>>

\* Mutant: the unchanged rows are dropped whatever keep_zeros says.
SkipsUnchangedAlways(before_avg, after_avg, a) == before_avg = after_avg

\* Mutant: the unchanged test compares the numbers, not the strings.
SkipsUnchangedNumeric(before_avg, after_avg, a) ==
    /\ ~a.keep_zeros
    /\ \/ before_avg = after_avg
       \/ /\ IsIntLiteral(before_avg) /\ IsIntLiteral(after_avg)
          /\ IntOf(before_avg) = IntOf(after_avg)

\* Line 150: not args.keep_zeros and before_avg == after_avg
SkipsUnchanged(before_avg, after_avg, a) ==
    ~a.keep_zeros /\ before_avg = after_avg

\* Mutant: the avg of a key only "after" has lands in the Before column.
OneSidedCellsBeforeOnly(b, a, key) ==
    IF key \in DOMAIN b
    THEN << <<CodeSpan(key), b[key]["avg"], <<"-">>, <<"-">>, <<"-">>>> >>
    ELSE IF key \in DOMAIN a
    THEN << <<CodeSpan(key), a[key]["avg"], <<"-">>, <<"-">>, <<"-">>>> >>
    ELSE <<>>

\* Lines 154-163: the rows (cell lists) for a key that is not in both
\* mappings.
OneSidedCells(b, a, key) ==
    IF key \in DOMAIN b
    THEN << <<CodeSpan(key), b[key]["avg"], <<"-">>, <<"-">>, <<"-">>>> >>
    ELSE IF key \in DOMAIN a
    THEN << <<CodeSpan(key), <<"-">>, a[key]["avg"], <<"-">>, <<"-">>>> >>
    ELSE <<>>

\* Lines 145-163.  print_table_line(before, after, key, args): the lines
\* printed and the exception raised, if any.
print_table_line(b, a, key, ar) ==
    IF key \in DOMAIN b /\ key \in DOMAIN a
    THEN LET before_avg == b[key]["avg"]
             after_avg == a[key]["avg"]
         IN  IF ~SkipsUnchanged(before_avg, after_avg, ar)
             THEN LET r == calculate_line(before_avg, after_avg)
                  IN  IF r.raised # ""
                      THEN [raised |-> r.raised, out |-> <<>>]
                      ELSE [raised |-> "",
                            out |-> <<print_list_in_markdown_table(
                                        <<CodeSpan(key)>> \o r.cells)>>]
             ELSE [raised |-> "", out |-> <<>>]
    ELSE IF ~ar.both
    THEN LET rows == OneSidedCells(b, a, key)
         IN  [raised |-> "",
              out |-> [i \in 1..Len(rows) |->
                          print_list_in_markdown_table(rows[i])]]
    ELSE [raised |-> "", out |-> <<>>]

---------------------------------------------------------------------------
(* The parsed reports the model formats *)

\* Number of method keys a report may hold.
MaxMethodKeys == 3

\* contract and method of the method keys, the first MaxMethodKeys are used
MethodNames ==
    << << <<"A">>, <<"f">> >>, << <<"a">>, <<"f">> >>,
       << <<"A">>, <<"f", "f">> >>, << <<"B">>, <<"f">> >>,
       << <<"B">>, <<"a">> >> >>

\* no entry for the key
NoAvg == <<"absent">>

\* avg strings of the first method key: zero, plain numbers, a second
\* spelling of 100, a number int() rejects, a negative number
AvgStrings ==
    { <<"0">>, <<"5", "0">>, <<"1", "0", "0">>, <<"1", "5", "0">>,
      <<"0", "1", "0", "0">>, <<"1", "0", "0", ".", "0">>, <<"-", "5">> }

\* avg strings of the other method keys
OtherAvgStrings == { <<"1", "0", "0">> }

\* avg strings of the deployment key
DeploymentAvgStrings == { <<"1", "5", "0">> }

\* the record new_report_dict_from_file stores for a method row
MethodRecord(name, avg) ==
    DictZip(METHOD_COLUMNS,
            <<name[1], name[2], <<"-">>, <<"-">>, avg, <<"3">>, <<"-">>>>)

\* the record new_report_dict_from_file stores for a deployment row
DeploymentRecord(contract, avg) ==
    DictZip(DEPLOYMENT_COLUMNS,
            <<contract, <<"-">>, <<"-">>, avg, <<"5", " ", "%">>, <<"-">>>>)

MethodDicts ==
    { LET present == {i \in 1..MaxMethodKeys : ch[i] # NoAvg}
      IN  [k \in {MethodKey(MethodRecord(MethodNames[i], ch[i])) : i \in present}
             |-> LET i == CHOOSE j \in present :
                             MethodKey(MethodRecord(MethodNames[j], ch[j])) = k
                 IN  MethodRecord(MethodNames[i], ch[i])] :
      ch \in { c \in [1..MaxMethodKeys -> AvgStrings \cup {NoAvg}] :
                 \A i \in 2..MaxMethodKeys : c[i] \in OtherAvgStrings \cup {NoAvg} } }

DeploymentDicts ==
    {EmptyDict} \cup
    { DictSet(EmptyDict, <<"A">>, DeploymentRecord(<<"A">>, a)) :
        a \in DeploymentAvgStrings }

\* dict(methods=methods, deployments=deployments)
Reports ==
    { [methods |-> m, deployments |-> d] :
        m \in MethodDicts, d \in DeploymentDicts }

---------------------------------------------------------------------------
(* Specification of format_markdown *)

\* Lines 202-204: two parsed reports and the options -z and -b.
InitFormat ==
    /\ before \in Reports
    /\ after \in Reports
    /\ args \in [keep_zeros : BOOLEAN, both : BOOLEAN]
    /\ stdout = <<>>
    /\ datakey = ""
    /\ all_keys = <<>>
    /\ mpc = "columns"
    /\ FlattenIdle
    /\ ParserIdle

\* Line 175
PrintColumns ==
    /\ mpc = "columns"
    /\ stdout' = Append(stdout, print_list_in_markdown_table(MARKDOWN_TABLE_COLUMNS))
    /\ mpc' = "alignments"
    /\ UNCHANGED <<before, after, args, datakey, all_keys>>
    /\ UNCHANGED flattenVars
    /\ UNCHANGED parserVars

\* Line 176
PrintAlignments ==
    /\ mpc = "alignments"
    /\ stdout' = Append(stdout, print_list_in_markdown_table(MARKDOWN_TABLE_ALIGNMENTS))
    /\ mpc' = "methods"
    /\ UNCHANGED <<before, after, args, datakey, all_keys>>
    /\ UNCHANGED flattenVars
    /\ UNCHANGED parserVars

\* Lines 167-169: print_subdict_in_markdown_table is entered for the
\* section mpc names.
EnterSubdict ==
    /\ mpc \in {"methods", "deployments"}
    /\ datakey' = mpc
    /\ all_keys' = dicts_union(before[mpc], after[mpc])
    /\ mpc' = "keys"
    /\ UNCHANGED <<before, after, args, stdout>>
    /\ UNCHANGED flattenVars
    /\ UNCHANGED parserVars

\* Lines 170-171: one iteration of `for key in all_keys`; an exception ends
\* the program.
PrintTableLine ==
    /\ mpc = "keys"
    /\ all_keys # <<>>
    /\ LET r == print_table_line(before[datakey], after[datakey],
                                 Head(all_keys), args)
       IN  /\ stdout' = stdout \o r.out
           /\ mpc' = IF r.raised # "" THEN r.raised ELSE mpc
    /\ all_keys' = Tail(all_keys)
    /\ UNCHANGED <<before, after, args, datakey>>
    /\ UNCHANGED flattenVars
    /\ UNCHANGED parserVars

\* The loop over all_keys ends: on to line 178, or format_markdown returns.
LeaveSubdict ==
    /\ mpc = "keys"
    /\ all_keys = <<>>
    /\ mpc' = IF datakey = "methods" THEN "deployments" ELSE "done"
    /\ UNCHANGED <<before, after, args, stdout, datakey, all_keys>>
    /\ UNCHANGED flattenVars
    /\ UNCHANGED parserVars

NextFormat ==
    \/ PrintColumns
    \/ PrintAlignments
    \/ EnterSubdict
    \/ PrintTableLine
    \/ LeaveSubdict

SpecFormat == InitFormat /\ [][NextFormat]_vars

---------------------------------------------------------------------------
(* Properties of format_markdown: reading the printed table back *)

\* The step is one iteration of the loop over all_keys, for Head(all_keys).
HandlesKey == mpc = "keys" /\ all_keys # <<>> /\ all_keys' = Tail(all_keys)

\* The lines the step prints.
NewLines == SubSeq(stdout', Len(stdout) + 1, Len(stdout'))

\* The step prints exactly n lines and keeps what was printed before.
PrintsLines(n) ==
    /\ Len(stdout') = Len(stdout) + n
    /\ SubSeq(stdout', 1, Len(stdout)) = stdout

\* The key being handled is in both mappings of the section.
InBoth == Head(all_keys) \in (DOMAIN before[datakey]) \cap (DOMAIN after[datakey])

BeforeAvg == before[datakey][Head(all_keys)]["avg"]
AfterAvg == after[datakey][Head(all_keys)]["avg"]

RECURSIVE SplitOn(_, _, _)
SplitOn(s, sep, cur) ==
    IF s = <<>> THEN <<cur>>
    ELSE IF Len(s) >= Len(sep) /\ SubSeq(s, 1, Len(sep)) = sep
    THEN <<cur>> \o SplitOn(SubSeq(s, Len(sep) + 1, Len(s)), sep, <<>>)
    ELSE SplitOn(Tail(s), sep, Append(cur, Head(s)))

\* text is a Markdown table line: it opens with "| " and closes with " |".
IsTableLine(text) ==
    /\ Len(text) >= 4
    /\ SubSeq(text, 1, 2) = <<"|", " ">>
    /\ SubSeq(text, Len(text) - 1, Len(text)) = <<" ", "|">>

\* The cells of a table line: what lies between the " | " separators.
Cells(text) == SplitOn(SubSeq(text, 3, Len(text) - 2), <<" ", "|", " ">>, <<>>)

\* The key of a body row: its first cell without the two backquotes.
RowKey(text) ==
    LET c == Cells(text)[1] IN SubSeq(c, 2, Len(c) - 1)

\* cell is the key between two backquotes.
IsCodeSpanOf(cell, key) ==
    /\ Len(cell) = Len(key) + 2
    /\ cell[1] = BACKQUOTE /\ cell[Len(cell)] = BACKQUOTE
    /\ SubSeq(cell, 2, Len(cell) - 1) = key

AllDigits(s) == s # <<>> /\ \A i \in 1..Len(s) : s[i] \in Range(Digits)

\* cell is the integer n in decimal with an explicit sign.
IsSignedInt(cell, n) ==
    /\ Len(cell) >= 2
    /\ cell[1] = (IF n < 0 THEN "-" ELSE "+")
    /\ AllDigits(Tail(cell))
    /\ (Len(cell) > 2 => cell[2] # "0")
    /\ DigitsValue(Tail(cell), 0) = Abs(n)

\* cell is 100 * diff / base as a signed percentage with two decimals:
\* sign, digits, ".", two digits, "%"; the printed value is within half a
\* hundredth of the exact one, and a non-zero quotient has its own sign.
IsSignedPercent(cell, diff, base) ==
    /\ Len(cell) >= 6
    /\ cell[1] \in {"+", "-"}
    /\ cell[Len(cell)] = "%"
    /\ cell[Len(cell) - 3] = "."
    /\ LET whole == SubSeq(cell, 2, Len(cell) - 4)
           frac == SubSeq(cell, Len(cell) - 2, Len(cell) - 1)
           h == 100 * DigitsValue(whole, 0) + DigitsValue(frac, 0)
       IN  /\ AllDigits(whole) /\ AllDigits(frac)
           /\ 2 * Abs(10000 * Abs(diff) - h * Abs(base)) <= Abs(base)
           /\ diff # 0 => (cell[1] = "-" <=> ((diff < 0) # (base < 0)))

\* The one line in rows is the full row of a key in both mappings.
IsDiffRow(rows, key, b, a) ==
    /\ Len(rows) = 1
    /\ IsTableLine(rows[1])
    /\ LET c == Cells(rows[1])
       IN  /\ Len(c) = 5
           /\ IsCodeSpanOf(c[1], key)
           /\ c[2] = b
           /\ c[3] = a
           /\ IsSignedInt(c[4], IntOf(a) - IntOf(b))
           /\ IsSignedPercent(c[5], IntOf(a) - IntOf(b), IntOf(b))

\* C3 as stated: every key in both mappings whose avg strings differ gets
\* exactly one row: the key in backquotes, the two avg strings, the signed
\* integer difference and the signed two-decimal percentage.
C3_Original ==
    [][ (HandlesKey /\ InBoth /\ BeforeAvg # AfterAvg)
          => /\ PrintsLines(1)
             /\ IsIntLiteral(BeforeAvg) /\ IsIntLiteral(AfterAvg)
             /\ IntOf(BeforeAvg) # 0
             /\ IsDiffRow(NewLines, Head(all_keys), BeforeAvg, AfterAvg) ]_vars

\* C3 amended: every key in both mappings whose avg strings differ, are both
\* integer literals for int(), and whose before avg is not zero, gets exactly
\* one row, whatever keep_zeros and both are: the key in backquotes, the two
\* avg strings, the signed integer difference and 100 * (after - before) /
\* before as a signed percentage with two decimals.
C3_DiffRow ==
    [][ (/\ HandlesKey /\ InBoth /\ BeforeAvg # AfterAvg
         /\ IsIntLiteral(BeforeAvg) /\ IsIntLiteral(AfterAvg)
         /\ IntOf(BeforeAvg) # 0)
          => /\ PrintsLines(1)
             /\ mpc' = mpc
             /\ IsDiffRow(NewLines, Head(all_keys), BeforeAvg, AfterAvg) ]_vars

\* "`A.f` | 100 | 150 | +50 | +50.00%" between "| " and " |"
RowAf100to150 ==
    <<"|", " ", BACKQUOTE, "A", ".", "f", BACKQUOTE, " ", "|", " ",
      "1", "0", "0", " ", "|", " ", "1", "5", "0", " ", "|", " ",
      "+", "5", "0", " ", "|", " ", "+", "5", "0", ".", "0", "0", "%",
      " ", "|">>

\* C3 witness: A.f went from 100 to 150 and its row is the third line
\* printed, under the option that would suppress one-sided rows.
C3_Witness ==
    /\ Len(stdout) >= 3
    /\ stdout[3] = RowAf100to150
    /\ args.both /\ ~args.keep_zeros

PlusZero == <<"+", "0">>
PlusZeroPercent == <<"+", "0", ".", "0", "0", "%">>

\* The one line in rows is a row of the key with "+0" and "+0.00%".
IsZeroRow(rows, key) ==
    /\ Len(rows) = 1
    /\ IsTableLine(rows[1])
    /\ LET c == Cells(rows[1])
       IN  /\ Len(c) = 5
           /\ IsCodeSpanOf(c[1], key)
           /\ c[4] = PlusZero
           /\ c[5] = PlusZeroPercent

\* C4 as stated: a key in both mappings with byte-identical avg strings
\* gets no row when keep_zeros is false, and exactly one row, with "+0" and
\* "+0.00%", when keep_zeros is true.
C4_Original ==
    [][ (HandlesKey /\ InBoth /\ BeforeAvg = AfterAvg)
          => IF args.keep_zeros
             THEN PrintsLines(1) /\ IsZeroRow(NewLines, Head(all_keys))
             ELSE stdout' = stdout ]_vars

\* C4 amended: a key in both mappings with byte-identical avg strings gets
\* no row when keep_zeros is false; when keep_zeros is true and the avg is
\* an integer literal of a positive number it gets exactly one row, with
\* difference "+0" and percentage "+0.00%"; either way for both values of
\* the both option.
C4_UnchangedRow ==
    [][ (HandlesKey /\ InBoth /\ BeforeAvg = AfterAvg)
          => /\ ~args.keep_zeros => (stdout' = stdout /\ mpc' = mpc)
             /\ (/\ args.keep_zeros
                 /\ IsIntLiteral(BeforeAvg)
                 /\ IntOf(BeforeAvg) > 0)
                  => /\ PrintsLines(1)
                     /\ mpc' = mpc
                     /\ IsZeroRow(NewLines, Head(all_keys))
                     /\ Cells(NewLines[1])[2] = BeforeAvg
                     /\ Cells(NewLines[1])[3] = AfterAvg ]_vars

\* C4 witness: with keep_zeros and both set, a key whose avg is "100" on
\* both sides got its "+0", "+0.00%" row.
C4_Witness ==
    /\ args.keep_zeros /\ args.both
    /\ Len(stdout) >= 3
    /\ LET c == Cells(stdout[3])
       IN  /\ Len(c) = 5
           /\ c[2] = <<"1", "0", "0">> /\ c[3] = <<"1", "0", "0">>
           /\ c[4] = PlusZero /\ c[5] = PlusZeroPercent

\* The key being handled is in exactly one of the two mappings.
InOne ==
    (Head(all_keys) \in DOMAIN before[datakey])
        # (Head(all_keys) \in DOMAIN after[datakey])

Dash == <<"-">>

\* C5: a key in exactly one of the two mappings gets, when both is false,
\* exactly one row: the key, its avg in the Before column if it is in
\* "before" and in the After column if it is in "after", and "-" in the
\* other three cells; when both is true it gets no row.  keep_zeros plays no
\* part.
C5_OneSidedRow ==
    [][ (HandlesKey /\ InOne)
          => /\ mpc' = mpc
             /\ IF args.both
                THEN stdout' = stdout
                ELSE /\ PrintsLines(1)
                     /\ IsTableLine(NewLines[1])
                     /\ LET c == Cells(NewLines[1])
                            key == Head(all_keys)
                        IN  /\ Len(c) = 5
                            /\ IsCodeSpanOf(c[1], key)
                            /\ c[4] = Dash /\ c[5] = Dash
                            /\ IF key \in DOMAIN before[datakey]
                               THEN c[2] = BeforeAvg /\ c[3] = Dash
                               ELSE c[2] = Dash /\ c[3] = AfterAvg ]_vars

\* C5 witness: two one-sided rows were printed, one of a key only "after"
\* has and one of a key only "before" has, with keep_zeros set.
C5_Witness ==
    /\ ~args.both /\ args.keep_zeros
    /\ Len(stdout) >= 4
    /\ \E i, j \in 3..Len(stdout) :
          /\ Cells(stdout[i])[2] = Dash /\ Cells(stdout[i])[3] # Dash
          /\ Cells(stdout[j])[3] = Dash /\ Cells(stdout[j])[2] # Dash
          /\ RowKey(stdout[i]) \notin DOMAIN before["methods"]
          /\ RowKey(stdout[j]) \notin DOMAIN after["methods"]

\* The before avg of the key being handled is the integer 0.
BeforeIsZero == IsIntLiteral(BeforeAvg) /\ IntOf(BeforeAvg) = 0

\* C6 as stated: whenever a key is in both mappings and its before avg is
\* the integer 0, formatting it fails with a division fault and prints no
\* row.
C6_Original ==
    [][ (HandlesKey /\ InBoth /\ BeforeIsZero)
          => (mpc' = "ZeroDivisionError" /\ stdout' = stdout) ]_vars

\* C6 amended: whenever a key is in both mappings, its before avg is the
\* integer 0, its after avg is an integer literal, and the key is not
\* skipped as unchanged (keep_zeros is true or the two avg strings differ),
\* formatting it fails with a division fault that ends the formatter; and
\* whenever the before avg is the integer 0 no row is printed for the key.
C6_ZeroDivision ==
    [][ /\ (HandlesKey /\ InBoth /\ BeforeIsZero)
            => /\ stdout' = stdout
               /\ (IsIntLiteral(AfterAvg)
                     /\ (args.keep_zeros \/ BeforeAvg # AfterAvg))
                    => mpc' = "ZeroDivisionError"
        /\ mpc = "ZeroDivisionError" => UNCHANGED vars ]_vars

\* C6 witness: the formatter stopped on a division by zero after the two
\* header lines, on a key whose avg is "0" in both reports (keep_zeros set).
C6_Witness ==
    /\ mpc = "ZeroDivisionError"
    /\ Len(stdout) = 2
    /\ args.keep_zeros
    /\ \E k \in (DOMAIN before["methods"]) \cap (DOMAIN after["methods"]) :
          /\ before["methods"][k]["avg"] = <<"0">>
          /\ after["methods"][k]["avg"] = <<"0">>

\* Decimal numerals: an optional sign, digits, and optionally a point and
\* more digits.
DecBody(s) == IF s # <<>> /\ Head(s) \in {"+", "-"} THEN Tail(s) ELSE s

DecPoint(s) ==
    LET b == DecBody(s)
        ps == {i \in 1..Len(b) : b[i] = "."}
    IN  IF ps = {} THEN Len(b) + 1 ELSE CHOOSE i \in ps : \A j \in ps : i <= j

DecWhole(s) == SubSeq(DecBody(s), 1, DecPoint(s) - 1)
DecFrac(s) == SubSeq(DecBody(s), DecPoint(s) + 1, Len(DecBody(s)))

IsDecimal(s) ==
    /\ AllDigits(DecWhole(s))
    /\ DecPoint(s) <= Len(DecBody(s)) => AllDigits(DecFrac(s))

RECURSIVE Pow10(_)
Pow10(n) == IF n = 0 THEN 1 ELSE 10 * Pow10(n - 1)

\* the number s denotes, times 10 to the number of its decimals
DecScaled(s) ==
    LET v == DigitsValue(DecWhole(s) \o DecFrac(s), 0)
    IN  IF s # <<>> /\ Head(s) = "-" THEN 0 - v ELSE v

\* s and t are decimal numerals of the same number.
SameNumber(s, t) ==
    /\ IsDecimal(s) /\ IsDecimal(t)
    /\ DecScaled(s) * Pow10(Len(DecFrac(t))) = DecScaled(t) * Pow10(Len(DecFrac(s)))

\* C7 as stated: with keep_zeros false, a key in both mappings whose avg
\* strings differ as strings but denote the same number (e.g. "100" and
\* "100.0") is treated as changed: a row is printed for it.
C7_Original ==
    [][ (/\ HandlesKey /\ InBoth /\ ~args.keep_zeros
         /\ BeforeAvg # AfterAvg /\ SameNumber(BeforeAvg, AfterAvg))
          => /\ PrintsLines(1)
             /\ IsTableLine(NewLines[1])
             /\ IsCodeSpanOf(Cells(NewLines[1])[1], Head(all_keys)) ]_vars

\* C7 amended: with keep_zeros false, the decision to skip a key in both
\* mappings is made on string equality of the two avg values, not numeric
\* equality: two avg strings that differ as strings but denote the same
\* number are never skipped as unchanged.  When both are integer literals
\* for int() of a non-zero number (e.g. "100" and "0100") a row is printed
\* for the key, with difference "+0"; otherwise no row is printed and the
\* formatter stops with a fault: a value error when one of them is not an
\* integer literal (e.g. "100" and "100.0"), a division fault when both
\* denote zero.
C7_StringEquality ==
    [][ (/\ HandlesKey /\ InBoth /\ ~args.keep_zeros
         /\ BeforeAvg # AfterAvg /\ SameNumber(BeforeAvg, AfterAvg))
          => IF ~(IsIntLiteral(BeforeAvg) /\ IsIntLiteral(AfterAvg))
             THEN mpc' = "ValueError" /\ stdout' = stdout
             ELSE IF IntOf(BeforeAvg) = 0
             THEN mpc' = "ZeroDivisionError" /\ stdout' = stdout
             ELSE /\ PrintsLines(1)
                  /\ mpc' = mpc
                  /\ IsTableLine(NewLines[1])
                  /\ IsCodeSpanOf(Cells(NewLines[1])[1], Head(all_keys))
                  /\ Cells(NewLines[1])[2] = BeforeAvg
                  /\ Cells(NewLines[1])[3] = AfterAvg
                  /\ Cells(NewLines[1])[4] = PlusZero ]_vars

\* C7 witness: with keep_zeros false a row was printed for a key whose avg
\* is "100" before and "0100" after.
C7_Witness ==
    /\ ~args.keep_zeros
    /\ Len(stdout) >= 3
    /\ LET c == Cells(stdout[3])
       IN  /\ Len(c) = 5
           /\ c[2] = <<"1", "0", "0">> /\ c[3] = <<"0", "1", "0", "0">>
           /\ c[4] = PlusZero

\* The printed body rows (after the two header lines) of the section whose
\* two mappings are b and a; the key sets of the two sections are disjoint.
SectionRowKeys(b, a) ==
    LET idx == {i \in 3..Len(stdout) :
                   RowKey(stdout[i]) \in (DOMAIN b) \cup (DOMAIN a)}
    IN  [i \in idx |-> RowKey(stdout[i])]

\* The rows of a section appear in strictly increasing order of their keys.
RowsIncreasing(b, a) ==
    LET rk == SectionRowKeys(b, a)
    IN  \A i, j \in DOMAIN rk : i < j => StrLess(rk[i], rk[j])

\* C8: within each section pass the printed rows appear in strictly
\* increasing lexicographic order of their keys, whichever of the two
\* mappings (or both) each key comes from.
C8_RowsInKeyOrder ==
    /\ RowsIncreasing(before["methods"], after["methods"])
    /\ RowsIncreasing(before["deployments"], after["deployments"])

\* C8 witness: three method rows were printed, the first for a key only
\* "after" has, the second for a key in both, the third for a key only
\* "before" has.
C8_Witness ==
    /\ Len(stdout) >= 5
    /\ LET k1 == RowKey(stdout[3])
           k2 == RowKey(stdout[4])
           k3 == RowKey(stdout[5])
           b == DOMAIN before["methods"]
           a == DOMAIN after["methods"]
       IN  /\ k1 \in a \ b
           /\ k2 \in a \cap b
           /\ k3 \in b \ a

---------------------------------------------------------------------------
(* Further properties of new_report_dict_from_file *)

\* The deployments mapping d holds, under the key contract, the record whose
\* six fields are the values of data in order.
HoldsDeploymentRecord(d, data) ==
    LET key == data[1]
    IN  /\ key \in DOMAIN d
        /\ DOMAIN d[key] = Range(DEPLOYMENT_COLUMNS)
        /\ \A i \in 1..6 : d[key][DEPLOYMENT_COLUMNS[i]] = data[i]

\* C11: every line read in DEPLOYMENTS that flattens to exactly 6 values is
\* stored in the deployments mapping under its first value, with the six
\* fields contract, min, max, avg, pctg, avgeur in order; a line of any other
\* count (7 included) leaves the deployments mapping unchanged.
C11_DeploymentRowStored ==
    [][ (ReadsLine /\ state = "DEPLOYMENTS")
          => LET data == flatten_line(Last(fp'))
             IN  IF Len(data) = 6
                 THEN /\ HoldsDeploymentRecord(deployments', data)
                      /\ DEPLOYMENT_COLUMNS =
                           <<"contract", "min", "max", "avg", "pctg", "avgeur">>
                      /\ \A k \in DOMAIN deployments' :
                            k # data[1] =>
                               k \in DOMAIN deployments
                               /\ deployments'[k] = deployments[k]
                 ELSE deployments' = deployments ]_vars

\* C11 witness: in DEPLOYMENTS a 6-column row was stored and a 7-column row
\* read after it left the mapping alone.
C11_Witness ==
    /\ Len(fp) = 4
    /\ Contains(fp[1], S_Contract)
    /\ Contains(fp[2], S_Deployments)
    /\ Len(flatten_line(fp[3])) = 6
    /\ Len(flatten_line(fp[4])) = 7
    /\ HoldsDeploymentRecord(deployments, flatten_line(fp[3]))
    /\ Cardinality(DOMAIN deployments) = 1

\* The state in which the i-th line of the file f is read, from the file
\* alone: HEADER up to and including the first line with "Contract",
\* METHODS after it up to and including the first later line with
\* "Deployments", DEPLOYMENTS from then on.
StateAt(f, i) ==
    LET cs == {j \in 1..(i - 1) : Contains(f[j], S_Contract)}
    IN  IF cs = {} THEN "HEADER"
        ELSE LET c == CHOOSE j \in cs : \A k \in cs : j <= k
             IN  IF \E j \in (c + 1)..(i - 1) : Contains(f[j], S_Deployments)
                 THEN "DEPLOYMENTS"
                 ELSE "METHODS"

\* The lines of f that are materialized as method records.
MethodLines(f) ==
    {i \in 1..Len(f) :
        /\ StateAt(f, i) = "METHODS"
        /\ ~Contains(f[i], S_Deployments)
        /\ Len(flatten_line(f[i])) = 7}

\* The lines of f that are materialized as deployment records.
DeploymentLines(f) ==
    {i \in 1..Len(f) :
        StateAt(f, i) = "DEPLOYMENTS" /\ Len(flatten_line(f[i])) = 6}

MethodKeyOfLine(l) ==
    LET data == flatten_line(l) IN data[1] \o <<".">> \o data[2]

DeploymentKeyOfLine(l) == flatten_line(l)[1]

\* The last of the lines in idx.
LastOf(idx) == CHOOSE i \in idx : \A j \in idx : j <= i

\* C12: for every key of the methods mapping the stored record is the one
\* built from the last materialized method line with that key, and the
\* mapping has no other keys; the same for the deployments mapping: the last
\* occurrence wins and earlier records for the key leave no trace.
C12_LastOccurrenceWins ==
    /\ DOMAIN methods = {MethodKeyOfLine(fp[i]) : i \in MethodLines(fp)}
    /\ \A k \in DOMAIN methods :
          LET i == LastOf({j \in MethodLines(fp) : MethodKeyOfLine(fp[j]) = k})
              data == flatten_line(fp[i])
          IN  /\ DOMAIN methods[k] = Range(METHOD_COLUMNS)
              /\ \A c \in 1..7 : methods[k][METHOD_COLUMNS[c]] = data[c]
    /\ DOMAIN deployments = {DeploymentKeyOfLine(fp[i]) : i \in DeploymentLines(fp)}
    /\ \A k \in DOMAIN deployments :
          LET i == LastOf({j \in DeploymentLines(fp) : DeploymentKeyOfLine(fp[j]) = k})
              data == flatten_line(fp[i])
          IN  /\ DOMAIN deployments[k] = Range(DEPLOYMENT_COLUMNS)
              /\ \A c \in 1..6 : deployments[k][DEPLOYMENT_COLUMNS[c]] = data[c]

\* C12 witness: two method rows with the same key and different avg were
\* read one after the other, and the record holds the avg of the second.
C12_Witness ==
    /\ Len(fp) = 3
    /\ MethodLines(fp) = {2, 3}
    /\ MethodKeyOfLine(fp[2]) = MethodKeyOfLine(fp[3])
    /\ flatten_line(fp[2])[5] # flatten_line(fp[3])[5]
    /\ methods[MethodKeyOfLine(fp[3])]["avg"] = flatten_line(fp[3])[5]
    /\ Cardinality(DOMAIN methods) = 1

\* C13: for every finite file the parser reaches the end of input without a
\* fault and returns the two mappings as built so far, whichever state is
\* active then (the end of the file can come in every state of the loop);
\* a file with no "Contract" line returns two empty mappings, and a file of
\* which no line is read in DEPLOYMENTS returns an empty deployments
\* mapping.
C13_TerminatesAndReturns ==
    /\ <>(ppc = "returned")
    /\ [](ppc # "fault")
    /\ [](ppc = "loop" => ENABLED Return)
    /\ [][ppc' = "returned" => (methods' = methods /\ deployments' = deployments)]_vars
    /\ [](ppc = "returned" =>
            /\ (\A i \in 1..Len(fp) : ~Contains(fp[i], S_Contract))
                  => (methods = EmptyDict /\ deployments = EmptyDict)
            /\ (\A i \in 1..Len(fp) : StateAt(fp, i) # "DEPLOYMENTS")
                  => deployments = EmptyDict)

\* C13 witness: a file without a "Contract" line, holding a 7-column and a
\* 6-column row, was read to its end in HEADER and two empty mappings are
\* returned.
C13_Witness ==
    /\ ppc = "returned"
    /\ state = "HEADER"
    /\ Len(fp) = 2
    /\ Len(flatten_line(fp[1])) = 7 /\ Len(flatten_line(fp[2])) = 6
    /\ ~Contains(fp[1], S_Contract) /\ ~Contains(fp[2], S_Contract)
    /\ methods = EmptyDict /\ deployments = EmptyDict

\* C16: in every reachable state the state variable is one of HEADER,
\* METHODS, DEPLOYMENTS, so the "unknown state" branch is never taken.
C16_StateIsKnown ==
    /\ state \in {"HEADER", "METHODS", "DEPLOYMENTS"}
    /\ next_state \in {"HEADER", "METHODS", "DEPLOYMENTS"}
    /\ ppc # "fault"

\* C16 witness: a line was read in each of the three states, in turn, and
\* the parser returned.
C16_Witness ==
    /\ ppc = "returned"
    /\ Len(fp) = 3
    /\ StateAt(fp, 1) = "HEADER"
    /\ StateAt(fp, 2) = "METHODS"
    /\ StateAt(fp, 3) = "DEPLOYMENTS"
    /\ state = "DEPLOYMENTS"

\* C15: the parser state only moves along HEADER -> METHODS -> DEPLOYMENTS:
\* never backwards, never from HEADER to DEPLOYMENTS, never out of
\* DEPLOYMENTS; and a transition decided on one line takes effect exactly on
\* the next: every line is read in the state its predecessors determine, so
\* the line right after the first "Contract" line is read in METHODS and the
\* line right after the first "Deployments" line seen in METHODS is read in
\* DEPLOYMENTS.
C15_StateMonotone ==
    [][ /\ state = "HEADER" => state' \in {"HEADER", "METHODS"}
        /\ state = "METHODS" => state' \in {"METHODS", "DEPLOYMENTS"}
        /\ state = "DEPLOYMENTS" => state' = "DEPLOYMENTS"
        /\ ReadsLine =>
              /\ state = StateAt(fp', Len(fp'))
              /\ state' = StateAt(fp', Len(fp') + 1)
              /\ (state = "HEADER" /\ Contains(Last(fp'), S_Contract))
                    => state' = "METHODS"
              /\ (state = "METHODS" /\ Contains(Last(fp'), S_Deployments))
                    => state' = "DEPLOYMENTS" ]_vars

\* C15 witness: a row of a contract named Contract was read in DEPLOYMENTS,
\* right after the "Deployments" line, and the parser is still in
\* DEPLOYMENTS.
C15_Witness ==
    /\ Len(fp) = 4
    /\ ~Contains(fp[1], S_Contract)
    /\ Contains(fp[2], S_Contract)
    /\ Contains(fp[3], S_Deployments)
    /\ Contains(fp[4], S_Contract)
    /\ state = "DEPLOYMENTS"
    /\ DOMAIN deployments = {S_Contract}

\* Two marker lines in order before line n of f: one with "Contract" and,
\* strictly after it, one with "Deployments".
MarkersBefore(f, n) ==
    \E i, j \in 1..(n - 1) :
        i < j /\ Contains(f[i], S_Contract) /\ Contains(f[j], S_Deployments)

\* C18: a line is read in DEPLOYMENTS only if an earlier line contained
\* "Contract" and a line strictly after that one and strictly before the
\* current one contained "Deployments"; a line read in HEADER never leads to
\* DEPLOYMENTS by itself, even if it contains both words; so a non-empty
\* deployments mapping implies two distinct marker lines in that order.
C18_DeploymentsNeedsBothMarkers ==
    [][ /\ (ReadsLine /\ state = "DEPLOYMENTS") => MarkersBefore(fp', Len(fp'))
        /\ (ReadsLine /\ state = "HEADER") => state' # "DEPLOYMENTS"
        /\ deployments' # EmptyDict => MarkersBefore(fp', Len(fp')) ]_vars

\* C18 witness: a line with both words was read in HEADER, then a 6-column
\* row in METHODS; the deployments mapping is empty.
C18_Witness ==
    /\ Len(fp) = 2
    /\ Contains(fp[1], S_Contract) /\ Contains(fp[1], S_Deployments)
    /\ Len(flatten_line(fp[2])) = 6
    /\ state = "METHODS"
    /\ deployments = EmptyDict

\* C19: each parser step changes at most the mapping of its own state: a
\* line read in HEADER leaves both mappings unchanged, so both are empty
\* throughout HEADER; a line read in METHODS leaves the deployments mapping
\* unchanged, so it is empty until DEPLOYMENTS is reached; a line read in
\* DEPLOYMENTS leaves the methods mapping unchanged.
C19_OwnMappingOnly ==
    /\ [][ ReadsLine =>
             /\ state = "HEADER"
                  => (methods' = methods /\ deployments' = deployments)
             /\ state = "METHODS" => deployments' = deployments
             /\ state = "DEPLOYMENTS" => methods' = methods ]_vars
    /\ [](state = "HEADER" => (methods = EmptyDict /\ deployments = EmptyDict))
    /\ [](state = "METHODS" => deployments = EmptyDict)

\* C19 witness: a method row was stored in METHODS, and a 7-column row of
\* another key read in DEPLOYMENTS left the methods mapping as it was.
C19_Witness ==
    /\ Len(fp) = 4
    /\ MethodLines(fp) = {2}
    /\ StateAt(fp, 4) = "DEPLOYMENTS"
    /\ Len(flatten_line(fp[4])) = 7
    /\ MethodKeyOfLine(fp[4]) # MethodKeyOfLine(fp[2])
    /\ DOMAIN methods = {MethodKeyOfLine(fp[2])}
    /\ deployments = EmptyDict

AllFieldsNonEmpty(rec) == \A c \in DOMAIN rec : rec[c] # <<>>

\* C20: every stored record is complete and consistent with its key: a
\* method record has exactly the 7 method fields, all non-empty, and
\* contract + "." + method is its key; a deployment record has exactly the 6
\* deployment fields, all non-empty, and contract is its key.
C20_RecordsMatchKeys ==
    /\ \A k \in DOMAIN methods :
          /\ DOMAIN methods[k] =
               {"contract", "method", "min", "max", "avg", "calls", "avgeur"}
          /\ AllFieldsNonEmpty(methods[k])
          /\ methods[k]["contract"] \o <<".">> \o methods[k]["method"] = k
    /\ \A k \in DOMAIN deployments :
          /\ DOMAIN deployments[k] =
               {"contract", "min", "max", "avg", "pctg", "avgeur"}
          /\ AllFieldsNonEmpty(deployments[k])
          /\ deployments[k]["contract"] = k

\* C20 witness: the file had one method row and one deployment row and
\* both are stored.
C20_Witness ==
    /\ Len(fp) = 4
    /\ MethodLines(fp) = {2}
    /\ DeploymentLines(fp) = {4}
    /\ Cardinality(DOMAIN methods) = 1
    /\ Cardinality(DOMAIN deployments) = 1

---------------------------------------------------------------------------
(* Further properties of format_markdown *)

\* The keys of a section: those of its before or its after mapping.
SectionKeys(dk) == (DOMAIN before[dk]) \cup (DOMAIN after[dk])

\* The positions of the body rows in the output.
BodyRows == 3..Len(stdout)

\* C14: every body row a section pass prints is for a key of the before or
\* the after mapping of that section, and each such key yields at most one
\* row in the pass; so the number of body rows never exceeds the size of the
\* methods key union plus the size of the deployments key union.
C14_RowsOnlyForKeys ==
    /\ [][ /\ HandlesKey =>
                /\ Len(stdout') <= Len(stdout) + 1
                /\ SubSeq(stdout', 1, Len(stdout)) = stdout
                /\ Head(all_keys) \in SectionKeys(datakey)
                /\ Len(stdout') = Len(stdout) + 1 =>
                      /\ Len(stdout) >= 2
                      /\ RowKey(Last(stdout')) = Head(all_keys)
                      /\ \A i \in BodyRows :
                            RowKey(stdout[i]) \in SectionKeys(datakey)
                               => StrLess(RowKey(stdout[i]), Head(all_keys))
           /\ (~HandlesKey /\ Len(stdout) >= 2) => stdout' = stdout ]_vars
    /\ [](/\ \A i \in BodyRows :
                RowKey(stdout[i]) \in SectionKeys("methods") \cup SectionKeys("deployments")
          /\ \A i, j \in BodyRows : i # j => RowKey(stdout[i]) # RowKey(stdout[j])
          /\ Len(stdout) <= 2 + Cardinality(SectionKeys("methods"))
                              + Cardinality(SectionKeys("deployments")))

\* C14 witness: the formatter finished and printed one row for each of the
\* three method keys and for the deployment key, two of them keys of both
\* mappings.
C14_Witness ==
    /\ mpc = "done"
    /\ Cardinality(SectionKeys("methods")) = 3
    /\ Cardinality(SectionKeys("deployments")) = 1
    /\ Cardinality((DOMAIN before["methods"]) \cap (DOMAIN after["methods"])) = 2
    /\ Len(stdout) = 6

ColumnsLine ==
    <<"|", " ", "M", "e", "t", "h", "o", "d", " ", "c", "a", "l", "l",
        " ", "o", "r", " ", "C", "o", "n", "t", "r", "a", "c", "t",
        " ", "d", "e", "p", "l", "o", "y", "m", "e", "n", "t", " ",
        "|", " ", "B", "e", "f", "o", "r", "e", " ", "|", " ", "A",
        "f", "t", "e", "r", " ", "|", " ", "A", "f", "t", "e", "r",
        " ", "-", " ", "B", "e", "f", "o", "r", "e", " ", "|", " ",
        "(", "A", "f", "t", "e", "r", " ", "-", " ", "B", "e", "f",
        "o", "r", "e", ")", " ", "/", " ", "B", "e", "f", "o", "r",
        "e", " ", "|">>

AlignmentsLine ==
    <<"|", " ", ":", "-", " ", "|", " ", ":", "-", ":", " ", "|", " ",
        ":", "-", ":", " ", "|", " ", ":", "-", ":", " ", "|", " ",
        ":", "-", ":", " ", "|">>

\* C17: the output begins with the column-label row followed by the
\* alignment row, also when both reports are empty and before any fault of
\* a body row; and every row of a methods key precedes every row of a
\* deployments key.
C17_HeaderThenSections ==
    /\ Len(stdout) >= 1 => stdout[1] = ColumnsLine
    /\ Len(stdout) >= 2 => stdout[2] = AlignmentsLine
    /\ mpc # "columns" => Len(stdout) >= 1
    /\ mpc \notin {"columns", "alignments"} => Len(stdout) >= 2
    /\ \A i, j \in BodyRows :
          (/\ RowKey(stdout[i]) \in SectionKeys("deployments")
           /\ RowKey(stdout[j]) \in SectionKeys("methods")) => j < i
    /\ (/\ mpc = "done"
        /\ SectionKeys("methods") = {} /\ SectionKeys("deployments") = {})
          => stdout = <<ColumnsLine, AlignmentsLine>>

\* C17 witness: the formatter finished; the output is the two header rows,
\* two rows of method keys and, last, the row of the deployment key.
C17_Witness ==
    /\ mpc = "done"
    /\ Len(stdout) = 5
    /\ stdout[1] = ColumnsLine /\ stdout[2] = AlignmentsLine
    /\ RowKey(stdout[3]) \in SectionKeys("methods")
    /\ RowKey(stdout[4]) \in SectionKeys("methods")
    /\ RowKey(stdout[5]) \in SectionKeys("deployments")

====
